---- MODULE Spec2Model ----
(***************************************************************************)
(* A model of gitslurp.py: the GitAnalyzer class (run_git_command,         *)
(* get_repository_name, get_commit_details, format_timestamp, get_commits, *)
(* analyze_repository), save_to_json, send_to_api and the main script.     *)
(*                                                                         *)
(* Python strings are modelled as sequences of one-character strings, so   *)
(* that strip, split, endswith, slicing and int() are computed the way     *)
(* Python computes them.  The repository under analysis (its remote URL,   *)
(* its history and the numstat of each commit) is part of the state: the   *)
(* git commands read it.                                                   *)
(*                                                                         *)
(* Outside the model: git missing or repo_path no directory (subprocess    *)
(* raises FileNotFoundError, which run_git_command does not catch), digit  *)
(* strings with underscores or non-ASCII digits, and timestamps beyond     *)
(* 32 bits (utcfromtimestamp raises past the year 9999).                   *)
(***************************************************************************)
EXTENDS Integers, Sequences, FiniteSets, TLC

VARIABLES
    argv,          \* sys.argv[1:], a sequence of strings
    remote,        \* environment: what `git config --get remote.origin.url` yields
    history,       \* environment: what `git log` yields (all lines, newest first)
    show,          \* environment: hash -> what `git show --numstat` yields
    saveOk,        \* environment: whether git_analysis.json is writable
    netOk,         \* environment: whether the HTTP POST succeeds
    pc,            \* position of the main script
    repo_path,     \* main: repo_path
    commit_limit,  \* main: commit_limit
    api_endpoint,  \* main: api_endpoint (<<>> is Python's None or '')
    repo_name,     \* analyze_repository: repo_name
    commit_lines,  \* get_commits: commit_lines
    i,             \* get_commits: loop index (0-based, next line to process)
    commits,       \* get_commits: commits
    printed,       \* get_commits: the progress messages printed so far
    gitCalls,      \* the subprocess.run invocations made so far, in order
    saved,         \* whether save_to_json has written the report
    sendResult,    \* what send_to_api returned
    summary        \* the summary block printed by the main script

vars == <<argv, remote, history, show, saveOk, netOk, pc, repo_path, commit_limit,
          api_endpoint, repo_name, commit_lines, i, commits, printed, gitCalls,
          saved, sendResult, summary>>

-----------------------------------------------------------------------------
(* Python str operations on sequences of characters *)

TAB == "\t"
NL == "\n"

\* str.strip() with no argument removes these from both ends
Whitespace == {" ", TAB, NL, "\r", "\f"}

Digits == {"0", "1", "2", "3", "4", "5", "6", "7", "8", "9"}

DigitValue(c) ==
    CASE c = "0" -> 0 [] c = "1" -> 1 [] c = "2" -> 2 [] c = "3" -> 3
      [] c = "4" -> 4 [] c = "5" -> 5 [] c = "6" -> 6 [] c = "7" -> 7
      [] c = "8" -> 8 [] c = "9" -> 9

RECURSIVE lstrip(_)
lstrip(s) ==
    IF s # <<>> /\ Head(s) \in Whitespace THEN lstrip(Tail(s)) ELSE s

RECURSIVE rstrip(_)
rstrip(s) ==
    IF s # <<>> /\ s[Len(s)] \in Whitespace
    THEN rstrip(SubSeq(s, 1, Len(s) - 1))
    ELSE s

strip(s) == rstrip(lstrip(s))

\* s.find(c): the first index (1-based) of character c in s, 0 when absent
find(s, c) ==
    IF \E k \in 1..Len(s) : s[k] = c
    THEN CHOOSE k \in 1..Len(s) : s[k] = c /\ \A j \in 1..(k - 1) : s[j] # c
    ELSE 0

\* s.rfind(c): the last index (1-based) of character c in s, 0 when absent
rfind(s, c) ==
    IF \E k \in 1..Len(s) : s[k] = c
    THEN CHOOSE k \in 1..Len(s) : s[k] = c /\ \A j \in (k + 1)..Len(s) : s[j] # c
    ELSE 0

\* s.split(c) for a one-character separator: always at least one part
RECURSIVE split(_, _)
split(s, c) ==
    LET k == find(s, c)
    IN IF k = 0
       THEN <<s>>
       ELSE <<SubSeq(s, 1, k - 1)>> \o split(SubSeq(s, k + 1, Len(s)), c)

startswith(s, p) == Len(s) >= Len(p) /\ SubSeq(s, 1, Len(p)) = p

endswith(s, p) == Len(s) >= Len(p) /\ SubSeq(s, Len(s) - Len(p) + 1, Len(s)) = p

\* c.join(parts)
RECURSIVE join(_, _)
join(parts, c) ==
    IF parts = <<>> THEN <<>>
    ELSE IF Len(parts) = 1 THEN parts[1]
    ELSE parts[1] \o <<c>> \o join(Tail(parts), c)

RECURSIVE DigitsValue(_)
DigitsValue(s) ==
    IF s = <<>> THEN 0
    ELSE 10 * DigitsValue(SubSeq(s, 1, Len(s) - 1)) + DigitValue(s[Len(s)])

\* int(s): surrounding whitespace is ignored, one sign is allowed, then one or
\* more decimal digits; anything else raises ValueError (ok = FALSE).
int(s) ==
    LET t == strip(s)
        signed == t # <<>> /\ t[1] \in {"+", "-"}
        body == IF signed THEN Tail(t) ELSE t
        ok == body # <<>> /\ \A k \in 1..Len(body) : body[k] \in Digits
    IN [ok |-> ok,
        val |-> IF ~ok THEN 0
                ELSE IF signed /\ t[1] = "-" THEN 0 - DigitsValue(body)
                ELSE DigitsValue(body)]

\* os.path.dirname (posixpath)
dirname(p) ==
    LET k == rfind(p, "/")
        head == SubSeq(p, 1, k)
    IN IF head # <<>> /\ \E j \in 1..Len(head) : head[j] # "/"
       THEN LET last == CHOOSE j \in 1..Len(head) :
                            head[j] # "/" /\ \A n \in (j + 1)..Len(head) : head[n] = "/"
            IN SubSeq(head, 1, last)
       ELSE head

\* os.path.basename (posixpath)
basename(p) == SubSeq(p, rfind(p, "/") + 1, Len(p))

-----------------------------------------------------------------------------
(* The git commands, as the environment answers them *)

\* A finished subprocess: its exit status and its standard output
Completed(rc, stdout) == [rc |-> rc, stdout |-> stdout]

\* git exits non-zero (unknown revision, not a repository, unset config key)
GitFailure == Completed(1, <<>>)

\* `git config --get remote.origin.url`
git_config == remote

\* `git log --format=%H|%an|%ae|%at -n<limit>`: one line per commit, newest
\* first, each ended by a newline; a negative count means no limit.
git_log(limit) ==
    IF history.rc # 0 THEN GitFailure
    ELSE LET n == IF limit < 0 \/ limit > Len(history.lines)
                  THEN Len(history.lines) ELSE limit
             RECURSIVE Lines(_)
             Lines(k) == IF k > n THEN <<>>
                         ELSE history.lines[k] \o <<NL>> \o Lines(k + 1)
         IN Completed(0, Lines(1))

\* `git show --numstat --format= <hash>`
git_show(commit_hash) ==
    IF commit_hash \in DOMAIN show THEN show[commit_hash] ELSE GitFailure

-----------------------------------------------------------------------------
(* class GitAnalyzer *)

\* run_git_command: the stripped standard output, or None when git fails
run_git_command(completed) ==
    IF completed.rc # 0
    THEN [none |-> TRUE, s |-> <<>>]
    ELSE [none |-> FALSE, s |-> strip(completed.stdout)]

\* Python truthiness of a str-or-None
truthy(output) == ~output.none /\ output.s # <<>>

DotGit == <<".", "g", "i", "t">>

\* get_repository_name, given the result of the remote-URL command
get_repository_name(remote_url, path) ==
    IF truthy(remote_url)
    THEN LET parts == split(remote_url.s, "/")
             name == parts[Len(parts)]
         IN IF endswith(name, DotGit)
            THEN SubSeq(name, 1, Len(name) - 4)
            ELSE name
    ELSE basename(dirname(path))

NoDetails == [linesAdded |-> 0, linesRemoved |-> 0, filesModified |-> <<>>]

\* numstat_row as it would be if each count were added as soon as it is parsed
numstat_row_eager(acc, line) ==
    IF line = <<>> THEN acc
    ELSE LET parts == split(line, TAB)
         IN IF Len(parts) < 3 THEN acc
            ELSE LET added == IF parts[1] # <<"-">> THEN int(parts[1])
                              ELSE [ok |-> TRUE, val |-> 0]
                     removed == IF parts[2] # <<"-">> THEN int(parts[2])
                                ELSE [ok |-> TRUE, val |-> 0]
                 IN IF ~added.ok THEN acc
                    ELSE IF ~removed.ok
                    THEN [acc EXCEPT !.linesAdded = @ + added.val]
                    ELSE [linesAdded |-> acc.linesAdded + added.val,
                          linesRemoved |-> acc.linesRemoved + removed.val,
                          filesModified |-> Append(acc.filesModified, parts[3])]

\* The body of the loop of get_commit_details for one line of the output
numstat_row(acc, line) ==
    IF line = <<>> THEN acc
    ELSE LET parts == split(line, TAB)
         IN IF Len(parts) < 3 THEN acc
            ELSE LET added == IF parts[1] # <<"-">> THEN int(parts[1])
                              ELSE [ok |-> TRUE, val |-> 0]
                     removed == IF parts[2] # <<"-">> THEN int(parts[2])
                                ELSE [ok |-> TRUE, val |-> 0]
                 IN IF ~added.ok \/ ~removed.ok THEN acc
                    ELSE [linesAdded |-> acc.linesAdded + added.val,
                          linesRemoved |-> acc.linesRemoved + removed.val,
                          filesModified |-> Append(acc.filesModified, parts[3])]

RECURSIVE numstat_rows(_, _)
numstat_rows(acc, lines) ==
    IF lines = <<>> THEN acc
    ELSE numstat_rows(numstat_row(acc, Head(lines)), Tail(lines))

\* get_commit_details, given the result of the numstat command
get_commit_details(output) ==
    IF ~truthy(output) THEN NoDetails
    ELSE numstat_rows(NoDetails, split(strip(output.s), NL))

Pad2(n) == IF n < 10 THEN "0" \o ToString(n) ELSE ToString(n)

\* datetime.utcfromtimestamp(t).strftime('%Y-%m-%dT%H:%M:%SZ'), proleptic
\* Gregorian calendar, for years of four digits
strftime_utc(t) ==
    LET days == t \div 86400
        secs == t % 86400
        z == days + 719468
        era == z \div 146097
        doe == z - era * 146097
        yoe == (doe - doe \div 1460 + doe \div 36524 - doe \div 146096) \div 365
        doy == doe - (365 * yoe + yoe \div 4 - yoe \div 100)
        mp == (5 * doy + 2) \div 153
        d == doy - (153 * mp + 2) \div 5 + 1
        m == IF mp < 10 THEN mp + 3 ELSE mp - 9
        y == yoe + era * 400 + (IF m <= 2 THEN 1 ELSE 0)
    IN ToString(y) \o "-" \o Pad2(m) \o "-" \o Pad2(d) \o "T"
       \o Pad2(secs \div 3600) \o ":" \o Pad2((secs % 3600) \div 60) \o ":"
       \o Pad2(secs % 60) \o "Z"

\* format_timestamp: int() raises ValueError on a field that is no integer
format_timestamp(unix_timestamp) ==
    LET t == int(unix_timestamp)
    IN [ok |-> t.ok, val |-> IF t.ok THEN strftime_utc(t.val) ELSE ""]

-----------------------------------------------------------------------------
(* save_to_json, send_to_api and the helpers of the main script *)

LimitFlag == <<"-", "-", "l", "i", "m", "i", "t", "=">>
ApiFlag == <<"-", "-", "a", "p", "i", "=">>

\* commit_limit = 100
DefaultLimit == 100

\* The loop over sys.argv[2:]: a later flag overrides an earlier one, and
\* int() of a --limit value that is no integer raises ValueError.
RECURSIVE parse_args(_, _)
parse_args(args, acc) ==
    IF args = <<>> \/ ~acc.ok THEN acc
    ELSE LET arg == Head(args)
             value == split(arg, "=")[2]
         IN IF startswith(arg, LimitFlag)
            THEN parse_args(Tail(args),
                            [acc EXCEPT !.ok = int(value).ok, !.limit = int(value).val])
            ELSE IF startswith(arg, ApiFlag)
            THEN parse_args(Tail(args), [acc EXCEPT !.api = value])
            ELSE parse_args(Tail(args), acc)

\* urllib.request.Request(endpoint): a URL with no scheme raises ValueError
\* ("unknown url type") before anything is sent
has_scheme(url) ==
    LET k == find(url, ":")
    IN k > 1 /\ \A j \in 1..(k - 1) : url[j] # "/"

\* send_to_api: the response body, or None after a URLError
send_to_api(ok) == IF ok THEN "response" ELSE "None"

\* The authors dictionary of the summary, in insertion order
RECURSIVE count_authors(_, _)
count_authors(cs, authors) ==
    IF cs = <<>> THEN authors
    ELSE LET author == Head(cs).author
             known == \E k \in 1..Len(authors) : authors[k].author = author
             bumped == [k \in 1..Len(authors) |->
                           IF authors[k].author = author
                           THEN [authors[k] EXCEPT !.count = @ + 1]
                           ELSE authors[k]]
         IN count_authors(Tail(cs),
                          IF known THEN bumped
                          ELSE Append(authors, [author |-> author, count |-> 1]))

\* insert_by_count as it would be if the sort put equal counts in reverse order
insert_by_count_unstable(sorted, item) ==
    LET before == Cardinality({k \in 1..Len(sorted) : sorted[k].count > item.count})
    IN SubSeq(sorted, 1, before) \o <<item>> \o SubSeq(sorted, before + 1, Len(sorted))

\* Where sorted(..., key=count, reverse=True) puts one more item: after every
\* item whose count is at least as large (the sort is stable)
insert_by_count(sorted, item) ==
    LET before == Cardinality({k \in 1..Len(sorted) : sorted[k].count >= item.count})
    IN SubSeq(sorted, 1, before) \o <<item>> \o SubSeq(sorted, before + 1, Len(sorted))

RECURSIVE sorted_by_count(_, _)
sorted_by_count(items, sorted) ==
    IF items = <<>> THEN sorted
    ELSE sorted_by_count(Tail(items), insert_by_count(sorted, Head(items)))

\* [:5]
TopN == 5

Take(s, n) == SubSeq(s, 1, IF Len(s) < n THEN Len(s) ELSE n)

top_contributors(cs) == Take(sorted_by_count(count_authors(cs, <<>>), <<>>), TopN)

RECURSIVE Sum(_, _)
Sum(cs, field) == IF cs = <<>> THEN 0 ELSE Head(cs)[field] + Sum(Tail(cs), field)

NoSummary == [repository |-> <<>>, total_commits |-> 0, total_added |-> 0,
              total_removed |-> 0, top |-> <<>>]

print_summary(name, cs) ==
    [repository |-> name,
     total_commits |-> Len(cs),
     total_added |-> Sum(cs, "linesAdded"),
     total_removed |-> Sum(cs, "linesRemoved"),
     top |-> top_contributors(cs)]

-----------------------------------------------------------------------------
(* The run of the main script *)

\* if len(sys.argv) < 2: usage, sys.exit(1); else parse the arguments
ParseArguments ==
    /\ pc = "start"
    /\ IF argv = <<>>
       THEN /\ pc' = "exit1"
            /\ UNCHANGED <<repo_path, commit_limit, api_endpoint>>
       ELSE LET parsed == parse_args(Tail(argv),
                                     [ok |-> TRUE, limit |-> DefaultLimit, api |-> <<>>])
            IN /\ pc' = IF parsed.ok THEN "analyze" ELSE "ValueError@int"
               /\ repo_path' = argv[1]
               /\ commit_limit' = parsed.limit
               /\ api_endpoint' = parsed.api
    /\ UNCHANGED <<argv, remote, history, show, saveOk, netOk, repo_name, commit_lines,
                   i, commits, printed, gitCalls, saved, sendResult, summary>>

\* analyze_repository, first half: repo_name = self.get_repository_name()
GetRepositoryName ==
    /\ pc = "analyze"
    /\ gitCalls' = Append(gitCalls, [cmd |-> "config", arg |-> <<>>])
    /\ repo_name' = get_repository_name(run_git_command(git_config), repo_path)
    /\ pc' = "get_commits"
    /\ UNCHANGED <<argv, remote, history, show, saveOk, netOk, repo_path, commit_limit,
                   api_endpoint, commit_lines, i, commits, printed, saved,
                   sendResult, summary>>

\* get_commits up to its loop: the history query, the split into lines and
\* the first progress message
GetCommitsStart ==
    /\ pc = "get_commits"
    /\ gitCalls' = Append(gitCalls, [cmd |-> "log", arg |-> <<>>])
    /\ LET output == run_git_command(git_log(commit_limit))
       IN IF ~truthy(output)
          THEN /\ pc' = "save"
               /\ UNCHANGED <<commit_lines, printed>>
          ELSE /\ pc' = "loop"
               /\ commit_lines' = split(output.s, NL)
               /\ printed' = <<[kind |-> "Processing", done |-> 0,
                                total |-> Len(split(output.s, NL))]>>
    /\ i' = 0
    /\ commits' = <<>>
    /\ UNCHANGED <<argv, remote, history, show, saveOk, netOk, repo_path, commit_limit,
                   api_endpoint, repo_name, saved, sendResult, summary>>

\* if (i + 1) % 10 == 0
ProgressEvery == 10

\* One call of subprocess.run
GitCall(cmd, arg) == [cmd |-> cmd, arg |-> arg]

\* The detail call as it would be if an empty answer were asked for again
show_commit_retry(calls, commit_hash) ==
    IF truthy(run_git_command(git_show(commit_hash)))
    THEN Append(calls, GitCall("show", commit_hash))
    ELSE Append(Append(calls, GitCall("show", commit_hash)), GitCall("show", commit_hash))

\* get_commit_details runs `git show --numstat --format= <hash>` once
show_commit(calls, commit_hash) == Append(calls, GitCall("show", commit_hash))

\* commits.append(commit), as it would be if the record were put in front
append_commit_front(cs, commit) == <<commit>> \o cs

\* commits.append(commit)
append_commit(cs, commit) == Append(cs, commit)

\* One iteration of the loop of get_commits, on commit_lines[i]
GetCommitsLine ==
    /\ pc = "loop"
    /\ i < Len(commit_lines)
    /\ LET line == commit_lines[i + 1]
           parts == split(line, "|")
           used == line # <<>> /\ Len(parts) >= 4
           details == get_commit_details(run_git_command(git_show(parts[1])))
           timestamp == format_timestamp(parts[4])
           commit == [hash |-> parts[1], author |-> parts[2], email |-> parts[3],
                      timestamp |-> timestamp.val,
                      linesAdded |-> details.linesAdded,
                      linesRemoved |-> details.linesRemoved,
                      filesModified |-> details.filesModified]
       IN /\ gitCalls' = IF used THEN show_commit(gitCalls, parts[1]) ELSE gitCalls
          /\ pc' = IF used /\ ~timestamp.ok THEN "ValueError@format_timestamp" ELSE "loop"
          /\ commits' = IF used /\ timestamp.ok THEN append_commit(commits, commit)
                        ELSE commits
          /\ printed' = IF used /\ timestamp.ok /\ (i + 1) % ProgressEvery = 0
                        THEN Append(printed, [kind |-> "Processed", done |-> i + 1,
                                              total |-> Len(commit_lines)])
                        ELSE printed
          /\ i' = IF used /\ ~timestamp.ok THEN i ELSE i + 1
    /\ UNCHANGED <<argv, remote, history, show, saveOk, netOk, repo_path, commit_limit,
                   api_endpoint, repo_name, commit_lines, saved, sendResult, summary>>

\* get_commits returns commits; analyze_repository returns the report
GetCommitsReturn ==
    /\ pc = "loop"
    /\ i = Len(commit_lines)
    /\ pc' = "save"
    /\ UNCHANGED <<argv, remote, history, show, saveOk, netOk, repo_path, commit_limit,
                   api_endpoint, repo_name, commit_lines, i, commits, printed,
                   gitCalls, saved, sendResult, summary>>

\* save_to_json(results); open() raises OSError when the file is not writable
SaveToJson ==
    /\ pc = "save"
    /\ saved' = saveOk
    /\ pc' = IF ~saveOk THEN "OSError@open"
             ELSE IF api_endpoint # <<>> THEN "send" ELSE "summary"
    /\ UNCHANGED <<argv, remote, history, show, saveOk, netOk, repo_path, commit_limit,
                   api_endpoint, repo_name, commit_lines, i, commits, printed,
                   gitCalls, sendResult, summary>>

\* The publish step as it would be if send_to_api let the URLError through
SendToApi_Unhandled ==
    /\ pc = "send"
    /\ IF has_scheme(api_endpoint)
       THEN /\ sendResult' = IF netOk THEN send_to_api(netOk) ELSE sendResult
            /\ pc' = IF netOk THEN "summary" ELSE "URLError@urlopen"
       ELSE /\ sendResult' = sendResult
            /\ pc' = "ValueError@Request"
    /\ UNCHANGED <<argv, remote, history, show, saveOk, netOk, repo_path, commit_limit,
                   api_endpoint, repo_name, commit_lines, i, commits, printed,
                   gitCalls, saved, summary>>

\* if api_endpoint: send_to_api(results, api_endpoint)
SendToApi ==
    /\ pc = "send"
    /\ IF has_scheme(api_endpoint)
       THEN /\ sendResult' = send_to_api(netOk)
            /\ pc' = "summary"
       ELSE /\ sendResult' = sendResult
            /\ pc' = "ValueError@Request"
    /\ UNCHANGED <<argv, remote, history, show, saveOk, netOk, repo_path, commit_limit,
                   api_endpoint, repo_name, commit_lines, i, commits, printed,
                   gitCalls, saved, summary>>

\* The summary block at the end of the script
PrintSummary ==
    /\ pc = "summary"
    /\ summary' = print_summary(repo_name, commits)
    /\ pc' = "done"
    /\ UNCHANGED <<argv, remote, history, show, saveOk, netOk, repo_path, commit_limit,
                   api_endpoint, repo_name, commit_lines, i, commits, printed,
                   gitCalls, saved, sendResult>>

Next ==
    \/ ParseArguments
    \/ GetRepositoryName
    \/ GetCommitsStart
    \/ GetCommitsLine
    \/ GetCommitsReturn
    \/ SaveToJson
    \/ SendToApi
    \/ PrintSummary

-----------------------------------------------------------------------------
(* The inputs: command lines and repositories *)

SeqsUpTo(S, n) == UNION {[1..k -> S] : k \in 0..n}

InitWith(a, r, h, sh, so, no) ==
    /\ argv = a
    /\ remote = r
    /\ history = h
    /\ show = sh
    /\ saveOk = so
    /\ netOk = no
    /\ pc = "start"
    /\ repo_path = <<>>
    /\ commit_limit = DefaultLimit
    /\ api_endpoint = <<>>
    /\ repo_name = <<>>
    /\ commit_lines = <<>>
    /\ i = 0
    /\ commits = <<>>
    /\ printed = <<>>
    /\ gitCalls = <<>>
    /\ saved = FALSE
    /\ sendResult = "unsent"
    /\ summary = NoSummary

RepoPath == <<"/", "w", "/", "r", "e", "p", "o", "/">>
H1 == <<"c", "1">>
H2 == <<"c", "2">>
H3 == <<"c", "3">>
H4 == <<"c", "4">>
H5 == <<"c", "5">>
H6 == <<"c", "6">>
H7 == <<"c", "7">>
Ada == <<"A", "d", "a">>
Bob == <<"B", "o", "b">>
Cy == <<"C", "y">>
Dee == <<"D", "e", "e">>
Eve == <<"E", "v", "e">>
Fay == <<"F", "a", "y">>
Gus == <<"G", "u", "s">>
Hal == <<"H", "a", "l">>
PipeName == <<"A", "|", "B">>
Email == <<"a", "@", "x">>
T2023 == <<"1", "7", "0", "0", "0", "0", "0", "0", "0", "0">>
T7 == <<"7">>
TNeg == <<"-", "1">>
TBad == <<"x">>
Limit2 == <<"-", "-", "l", "i", "m", "i", "t", "=", "2">>
Limit0 == <<"-", "-", "l", "i", "m", "i", "t", "=", "0">>
LimitBad == <<"-", "-", "l", "i", "m", "i", "t", "=", "x">>
LimitAll == <<"-", "-", "l", "i", "m", "i", "t", "=", "-", "1">>
ApiUrl == <<"-", "-", "a", "p", "i", "=", "h", "t", "t", "p", ":", "/", "/", "h", "/", "p">>
ApiQuery == <<"-", "-", "a", "p", "i", "=", "h", "t", "t", "p", ":", "/", "/", "h", "/", "p", "?", "k", "=", "v">>
ApiNoScheme == <<"-", "-", "a", "p", "i", "=", "h", "/", "p">>
ApiEmpty == <<"-", "-", "a", "p", "i", "=">>
Verbose == <<"-", "v">>
UrlHttps == <<"h", "t", "t", "p", "s", ":", "/", "/", "e", "x", "a", "m", "p", "l", "e", ".", "c", "o", "m", "/", "o", "r", "g", "/", "m", "y", "-", "r", "e", "p", "o", ".", "g", "i", "t">>
StatFile == <<"1", "0", TAB, "2", TAB, "f", "i", "l", "e", ".", "g", "o", NL>>
StatBinary == <<"-", TAB, "-", TAB, "i", "m", "g", ".", "p", "n", "g", NL, "3", TAB, "0", TAB, "a", " ", "b", NL>>
StatOne == <<"1", TAB, "1", TAB, "f", NL>>

HistoryLine(hash, author, email, at) == join(<<hash, author, email, at>>, "|")

LinePlain == HistoryLine(H1, Ada, Email, T2023)
LineEmptyStats == HistoryLine(H2, Bob, Email, T7)
LineShowFails == HistoryLine(H3, Ada, Email, TNeg)
LineBadTime == HistoryLine(H4, Bob, Email, TBad)
LinePipeAuthor == HistoryLine(H5, PipeName, Email, T7)
LineShort == join(<<H6, Ada>>, "|")
LineBinary == HistoryLine(H7, Cy, Email, T7)

LineCatalog == {LinePlain, LineEmptyStats, LineShowFails, LineBadTime,
                LinePipeAuthor, LineShort, LineBinary}

\* What `git show --numstat` yields for each commit of the catalog
Repository ==
    (H1 :> Completed(0, StatFile)) @@ (H2 :> Completed(0, <<>>)) @@ (H3 :> GitFailure)
    @@ (H4 :> Completed(0, StatOne)) @@ (H5 :> Completed(0, <<>>))
    @@ (H7 :> Completed(0, StatBinary))

History(lines) == [rc |-> 0, lines |-> lines]
NotARepository == [rc |-> 128, lines |-> <<>>]

ArgvCatalog ==
    {<<>>, <<RepoPath>>, <<RepoPath, Limit2>>, <<RepoPath, LimitBad>>,
     <<RepoPath, ApiUrl>>, <<RepoPath, ApiNoScheme>>, <<RepoPath, ApiEmpty>>,
     <<RepoPath, ApiQuery, Limit0>>, <<RepoPath, Verbose, LimitAll, ApiUrl>>}

\* Every command line of the catalog, on a few small repositories
InitBase ==
    \E a \in ArgvCatalog,
       r \in {GitFailure, Completed(0, UrlHttps \o <<NL>>)},
       h \in {NotARepository, History(<<>>), History(<<LinePlain>>),
              History(<<LinePlain, LineEmptyStats, LineBinary>>)},
       so \in BOOLEAN, no \in BOOLEAN :
        InitWith(a, r, h, Repository, so, no)

\* The longest history of Init
MaxLines == 3

Init ==
    \/ InitBase
    \/ \E a \in {<<RepoPath>>, <<RepoPath, Limit2>>},
          lines \in SeqsUpTo(LineCatalog, MaxLines) :
           InitWith(a, GitFailure, History(lines), Repository, TRUE, TRUE)

Spec == Init /\ [][Next]_vars

-----------------------------------------------------------------------------
(* Numstat outputs: the inputs of get_commit_details *)

\* Count fields and paths of well-formed numstat rows
CountPairs == {<<a, r>> : a \in {<<"0">>, <<"1", "2">>}, r \in {<<"0">>, <<"1", "2">>}}
                  \cup {<<(<<"-">>), (<<"-">>)>>}
PathCatalog == {<<"f">>, <<" ">>}
RegularRows == {join(<<c[1], c[2], path>>, TAB) : c \in CountPairs, path \in PathCatalog}

\* Rows git does not normally print, and rows int() reads leniently
IrregularRows ==
    {<<"x", TAB, "3", TAB, "f">>,
     <<"3", TAB, "x", TAB, "f">>,
     <<"3", TAB, "3">>,
     <<"f">>,
     <<TAB, "3", TAB, "3", TAB, "f">>,
     <<"3", TAB, "3", TAB, "f", TAB, "g">>,
     <<" ", "3", TAB, "+", "3", TAB, "f">>,
     <<"-", "3", TAB, "3", TAB, "f">>,
     <<"3", TAB, "-", TAB, "f">>}

RowCatalog == RegularRows \cup IrregularRows

RECURSIVE NumstatOutput(_)
NumstatOutput(rows) ==
    IF rows = <<>> THEN <<>> ELSE Head(rows) \o <<NL>> \o NumstatOutput(Tail(rows))

\* The most rows in a numstat output of InitDetails
MaxRows == 2

\* One commit, with every numstat output of at most MaxRows catalog rows
InitDetails ==
    \/ InitBase
    \/ \E rows \in SeqsUpTo(RowCatalog, MaxRows) :
           InitWith(<<RepoPath>>, GitFailure, History(<<LinePlain>>),
                    H1 :> Completed(0, NumstatOutput(rows)), TRUE, TRUE)

SpecDetails == InitDetails /\ [][Next]_vars

\* What a numstat output says, read without the program: its rows are the
\* newline-terminated lines, a row is added<TAB>removed<TAB>path, a count is
\* a run of decimal digits or a single dash
NumstatRows(stdout) ==
    LET pieces == split(stdout, NL)
    IN SubSeq(pieces, 1, Len(pieces) - 1)

IsDecimal(f) == f # <<>> /\ \A k \in 1..Len(f) : f[k] \in Digits
IsCountField(f) == f = <<"-">> \/ IsDecimal(f)
CountOf(f) == IF f = <<"-">> THEN 0 ELSE DigitsValue(f)

IsNumstatRow(row) ==
    LET f == split(row, TAB)
    IN Len(f) = 3 /\ IsCountField(f[1]) /\ IsCountField(f[2]) /\ f[3] # <<>>

IsBinaryRow(row) == split(row, TAB)[1] = <<"-">> \/ split(row, TAB)[2] = <<"-">>

RECURSIVE SumField(_, _)
SumField(rows, n) ==
    IF rows = <<>> THEN 0
    ELSE CountOf(split(Head(rows), TAB)[n]) + SumField(Tail(rows), n)

\* The numstat output is a non-empty sequence of well-formed rows, one of
\* them at least not binary
IsNumstat(out) ==
    /\ out.rc = 0
    /\ NumstatRows(out.stdout) # <<>>
    /\ \A k \in 1..Len(NumstatRows(out.stdout)) : IsNumstatRow(NumstatRows(out.stdout)[k])
    /\ \E k \in 1..Len(NumstatRows(out.stdout)) : ~IsBinaryRow(NumstatRows(out.stdout)[k])

\* C1: for every numstat output made of well-formed rows, one of them at least
\* not binary, linesAdded and linesRemoved of the commit's record are the sums
\* of the rows' added and removed counts (a dash counting as zero), and the
\* path of every binary row is recorded in filesModified at the row's place.
C1_SumsOfRows ==
    \A k \in 1..Len(commits) :
        LET out == git_show(commits[k].hash)
            rows == NumstatRows(out.stdout)
        IN IsNumstat(out) =>
              /\ commits[k].linesAdded = SumField(rows, 1)
              /\ commits[k].linesRemoved = SumField(rows, 2)
              /\ \A j \in 1..Len(rows) :
                     IsBinaryRow(rows[j]) =>
                         /\ j <= Len(commits[k].filesModified)
                         /\ commits[k].filesModified[j] = split(rows[j], TAB)[3]

\* The same sums for the outputs whose paths are not made of whitespace alone
C1_SumsOfRowsWithVisiblePaths ==
    \A k \in 1..Len(commits) :
        LET out == git_show(commits[k].hash)
            rows == NumstatRows(out.stdout)
        IN (IsNumstat(out) /\ \A j \in 1..Len(rows) : strip(split(rows[j], TAB)[3]) # <<>>) =>
              /\ commits[k].linesAdded = SumField(rows, 1)
              /\ commits[k].linesRemoved = SumField(rows, 2)
              /\ Len(commits[k].filesModified) = Len(rows)

\* The lines get_commit_details iterates over
DetailLines(out) ==
    LET output == run_git_command(out)
    IN IF truthy(output) THEN split(strip(output.s), NL) ELSE <<>>

\* int() reads the field: optional whitespace around an optional sign and digits
IsIntegerField(f) ==
    \E lo \in 1..Len(f) : \E hi \in lo..Len(f) :
        /\ \A k \in 1..Len(f) : (k < lo \/ k > hi) => f[k] \in Whitespace
        /\ \/ \A k \in lo..hi : f[k] \in Digits
           \/ /\ f[lo] \in {"+", "-"}
              /\ lo < hi
              /\ \A k \in (lo + 1)..hi : f[k] \in Digits

\* The row counts: three fields or more, both counts an integer or a dash
RowCounts(line) ==
    LET f == split(line, TAB)
    IN /\ Len(f) >= 3
       /\ f[1] = <<"-">> \/ IsIntegerField(f[1])
       /\ f[2] = <<"-">> \/ IsIntegerField(f[2])

RECURSIVE CountingRows(_)
CountingRows(lines) ==
    IF lines = <<>> THEN <<>>
    ELSE IF RowCounts(Head(lines))
    THEN <<Head(lines)>> \o CountingRows(Tail(lines))
    ELSE CountingRows(Tail(lines))

FieldValue(f) == IF f = <<"-">> THEN 0 ELSE int(f).val

RECURSIVE SumValues(_, _)
SumValues(rows, n) ==
    IF rows = <<>> THEN 0
    ELSE FieldValue(split(Head(rows), TAB)[n]) + SumValues(Tail(rows), n)

\* C10: a row of the output is counted as a whole or not at all: the totals
\* and filesModified of a commit's record come from exactly the rows that
\* have three fields or more and whose two counts are each an integer or a
\* dash; every other row changes nothing, and filesModified has one entry per
\* counting row.
C10_RowsAllOrNothing ==
    \A k \in 1..Len(commits) :
        LET rows == CountingRows(DetailLines(git_show(commits[k].hash)))
        IN /\ commits[k].linesAdded = SumValues(rows, 1)
           /\ commits[k].linesRemoved = SumValues(rows, 2)
           /\ commits[k].filesModified = [j \in 1..Len(rows) |-> split(rows[j], TAB)[3]]

\* A commit whose output has a row with a valid added count and an invalid
\* removed count, next to a row that counts
C10_Witness ==
    /\ Len(commits) = 1
    /\ git_show(commits[1].hash).stdout = NumstatOutput(<<<<"3", TAB, "x", TAB, "f">>, <<"1", "2", TAB, "0", TAB, "f">>>>)
    /\ commits[1].linesAdded = 12
    /\ Len(commits[1].filesModified) = 1

-----------------------------------------------------------------------------
(* Remote URLs and repository paths: the inputs of get_repository_name *)

UrlSegments == {<<>>, <<"r">>, DotGit, <<"r">> \o DotGit}
PathSegments == {<<>>, <<"r">>, <<".">>}

\* The most '/'-separated segments of a URL or path of InitName
MaxSegments == 3

SegmentSeqs(S) == SeqsUpTo(S, MaxSegments) \ {<<>>}

\* Every URL of the catalog with one path, and every path with no usable URL
InitName ==
    \/ InitBase
    \/ \E u \in SegmentSeqs(UrlSegments) :
           InitWith(<<RepoPath>>, Completed(0, join(u, "/") \o <<NL>>),
                    History(<<LinePlain>>), Repository, TRUE, TRUE)
    \/ \E q \in SegmentSeqs(PathSegments), r \in {GitFailure, Completed(0, <<NL>>)} :
           InitWith(<<join(q, "/")>>, r, History(<<LinePlain>>), Repository, TRUE, TRUE)

SpecName == InitName /\ [][Next]_vars

\* get_repository_name has returned
NameResolved ==
    pc \notin {"start", "exit1", "ValueError@int", "analyze"}

\* C2: whatever the remote-URL query yields and whatever the repository path,
\* the name get_repository_name returns is not the empty string.
C2_NameNeverEmpty == NameResolved => repo_name # <<>>

-----------------------------------------------------------------------------
(* Properties of get_commits and of the main script *)

\* get_commits has returned its list
Returned ==
    pc \in {"save", "send", "summary", "done", "OSError@open", "ValueError@Request"}

\* The lines the history query returned
QueryLines ==
    IF history.rc # 0 THEN <<>>
    ELSE IF commit_limit < 0 \/ commit_limit > Len(history.lines) THEN history.lines
    ELSE SubSeq(history.lines, 1, commit_limit)

\* A history line with four '|'-separated fields or more
HasFourFields(line) == Cardinality({k \in 1..Len(line) : line[k] = "|"}) >= 3

RECURSIVE UsableLines(_)
UsableLines(lines) ==
    IF lines = <<>> THEN <<>>
    ELSE IF HasFourFields(Head(lines))
    THEN <<Head(lines)>> \o UsableLines(Tail(lines))
    ELSE UsableLines(Tail(lines))

Field(line, n) == split(line, "|")[n]

\* C3: whatever lines the history query returns (too few fields, too many
\* because of a '|' in the author name, a fourth field that is no integer),
\* get_commits does not raise.
C3_MalformedInputNeverAborts == pc # "ValueError@format_timestamp"

\* The detail fetch of the commit of this line returns no output
EmptyFetch(line) ==
    HasFourFields(line) /\ ~truthy(run_git_command(git_show(Field(line, 1))))

\* The loop of get_commits has come to line k
ReachedLine(k) ==
    /\ pc \notin {"start", "exit1", "ValueError@int", "analyze", "get_commits"}
    /\ k <= i \/ (k = i + 1 /\ pc = "ValueError@format_timestamp")

\* C4: when the detail fetch of a commit returns no output, get_commits still
\* emits the commit's record, with linesAdded = 0, linesRemoved = 0 and
\* filesModified = [], and the run is not failed: it goes on through the
\* remaining lines.
C4_EmptyFetchGivesZeros ==
    \A k \in 1..Len(commit_lines) :
        (ReachedLine(k) /\ EmptyFetch(commit_lines[k])) =>
            LET n == Len(UsableLines(SubSeq(commit_lines, 1, k)))
            IN /\ pc # "ValueError@format_timestamp"
               /\ n <= Len(commits)
               /\ commits[n].hash = Field(commit_lines[k], 1)
               /\ commits[n].linesAdded = 0
               /\ commits[n].linesRemoved = 0
               /\ commits[n].filesModified = <<>>

\* The part of C4 that stands by itself: a record emitted for a commit whose
\* detail fetch returned no output has zeros and no files
C4_ZerosInEmittedRecords ==
    \A n \in 1..Len(commits) :
        ~truthy(run_git_command(git_show(commits[n].hash))) =>
            /\ commits[n].linesAdded = 0
            /\ commits[n].linesRemoved = 0
            /\ commits[n].filesModified = <<>>

\* C5: the list get_commits returns holds one record per returned history
\* line with four fields or more, in the order of the lines, so it is no
\* longer than the lines returned nor, for a positive limit, than the limit.
C5_OneRecordPerLineInOrder ==
    Returned =>
        LET usable == UsableLines(QueryLines)
        IN /\ Len(commits) = Len(usable)
           /\ \A k \in 1..Len(usable) :
                  /\ commits[k].hash = Field(usable[k], 1)
                  /\ commits[k].author = Field(usable[k], 2)
                  /\ commits[k].email = Field(usable[k], 3)
           /\ Len(commits) <= Len(QueryLines)
           /\ commit_limit > 0 => Len(commits) <= commit_limit

\* Three lines returned, the middle one skipped, two different records kept
C5_Witness ==
    /\ Returned
    /\ Len(QueryLines) = 3
    /\ ~HasFourFields(QueryLines[2])
    /\ Len(commits) = 2
    /\ commits[1].hash # commits[2].hash

\* A history longer than the limit, cut to the limit
C5_WitnessLimit ==
    /\ Returned
    /\ commit_limit = 2
    /\ Len(history.lines) = 3
    /\ Len(commits) = 2

C9_CallsAreCommitsPlusOne == Returned => Len(gitCalls) = Len(commits) + 1

\* C9, amended: a run whose analysis returns N commit records has made
\* N + 2 git invocations, one after the other: the remote-URL query, the
\* history listing, then one detail call per record, in the order of the
\* records.
C9_CallsAreCommitsPlusTwo ==
    Returned =>
        gitCalls = <<GitCall("config", <<>>), GitCall("log", <<>>)>>
                       \o [k \in 1..Len(commits) |-> GitCall("show", commits[k].hash)]

\* Two commits analysed, one of them with an empty detail output
C9_Witness ==
    /\ Returned
    /\ Len(commits) = 2
    /\ commits[1].hash = H2
    /\ commits[2].hash = H1
    /\ Len(gitCalls) = 4

-----------------------------------------------------------------------------
(* Long histories: the progress messages of get_commits *)

\* The longest history of InitProgress, and the most irregular lines in it
MaxHistory == 11
MaxIrregular == 2

\* Histories of up to MaxHistory lines, all regular but at most MaxIrregular
InitProgress ==
    \/ InitBase
    \/ \E n \in 0..MaxHistory :
         \E odd \in {S \in SUBSET (1..n) : Cardinality(S) <= MaxIrregular} :
           \E f \in [odd -> {LineShort, LineBadTime}] :
             InitWith(<<RepoPath>>, GitFailure,
                      History([k \in 1..n |-> IF k \in odd THEN f[k] ELSE LinePlain]),
                      Repository, TRUE, TRUE)

SpecProgress == InitProgress /\ [][Next]_vars

\* The loop of get_commits has been entered
InLoop ==
    /\ commit_lines # <<>>
    /\ pc \in {"loop", "ValueError@format_timestamp"} \/ Returned

ProgressMessage(kind, done, total) == [kind |-> kind, done |-> done, total |-> total]

\* C7: get_commits prints one message at the start, giving the number of
\* commits about to be processed, and then one message each time the number
\* of completed commit records reaches 10, 20, 30, ..., giving that number.
C7_ProgressCountsCommits ==
    InLoop =>
        LET total == Len(UsableLines(commit_lines))
        IN printed = <<ProgressMessage("Processing", 0, total)>>
                         \o [k \in 1..(Len(commits) \div ProgressEvery) |->
                                ProgressMessage("Processed", k * ProgressEvery, total)]

\* The cadence alone: as many messages after the first as tens of records
C7_MessageEveryTenRecords ==
    InLoop => Len(printed) = 1 + Len(commits) \div ProgressEvery

-----------------------------------------------------------------------------
(* Commit lists by author: the top contributors of the summary *)

AuthorNames == <<Ada, Bob, Cy, Dee, Eve, Fay, Gus, Hal>>
AuthorNamesReversed == <<Hal, Gus, Fay, Eve, Dee, Cy, Bob, Ada>>

\* The most commits in a history of InitSummary
MaxAuthored == 7

MaxOf(g) == IF g = <<>> THEN 0 ELSE CHOOSE m \in {g[k] : k \in 1..Len(g)} :
                                        \A k \in 1..Len(g) : g[k] <= m

\* The sequences of n author numbers in which a new author takes the next number
RECURSIVE AuthorPatterns(_)
AuthorPatterns(n) ==
    IF n = 0 THEN {<<>>}
    ELSE UNION {{Append(g, v) : v \in 1..(MaxOf(g) + 1)} : g \in AuthorPatterns(n - 1)}

\* Histories of up to MaxAuthored commits, by authors named in two orders
InitSummary ==
    \/ InitBase
    \/ \E n \in 0..MaxAuthored :
         \E g \in AuthorPatterns(n), names \in {AuthorNames, AuthorNamesReversed} :
             InitWith(<<RepoPath>>, GitFailure,
                      History([k \in 1..n |-> HistoryLine(H1, names[g[k]], Email, T7)]),
                      Repository, TRUE, TRUE)

SpecSummary == InitSummary /\ [][Next]_vars

CommitsBy(a) == Cardinality({k \in 1..Len(commits) : commits[k].author = a})

FirstCommitBy(a) ==
    CHOOSE k \in 1..Len(commits) :
        commits[k].author = a /\ \A j \in 1..(k - 1) : commits[j].author # a

AuthorsOfReport == {commits[k].author : k \in 1..Len(commits)}

\* a is ranked before b: more commits, or as many and encountered first
RankedBefore(a, b) ==
    \/ CommitsBy(a) > CommitsBy(b)
    \/ CommitsBy(a) = CommitsBy(b) /\ FirstCommitBy(a) < FirstCommitBy(b)

\* C8: the top contributors are at most five authors of the report, each
\* with the number of its commits, by descending count and, among equal
\* counts, in the order of first encounter; no author left out ranks before
\* a listed one.
C8_TopContributors ==
    pc = "done" =>
        LET top == summary.top
            listed == {top[j].author : j \in 1..Len(top)}
        IN /\ Len(top) <= TopN
           /\ Len(top) = IF Cardinality(AuthorsOfReport) < TopN
                         THEN Cardinality(AuthorsOfReport) ELSE TopN
           /\ \A j \in 1..Len(top) :
                  /\ top[j].author \in AuthorsOfReport
                  /\ top[j].count = CommitsBy(top[j].author)
           /\ \A j \in 1..Len(top) : \A k \in (j + 1)..Len(top) :
                  RankedBefore(top[j].author, top[k].author)
           /\ \A a \in AuthorsOfReport \ listed : \A j \in 1..Len(top) :
                  RankedBefore(top[j].author, a)

\* Six authors, the sixth with two commits: it is listed first, the fifth is
\* left out, and the four between are tied
C8_Witness ==
    /\ pc = "done"
    /\ Cardinality(AuthorsOfReport) = 6
    /\ Len(summary.top) = TopN
    /\ summary.top[1] = [author |-> commits[6].author, count |-> 2]
    /\ summary.top[2] = [author |-> commits[1].author, count |-> 1]
    /\ summary.top[5] = [author |-> commits[4].author, count |-> 1]

\* Ada, Bob, Ada gives Ada: 2 then Bob: 1
C8_WitnessExample ==
    /\ pc = "done"
    /\ [k \in 1..Len(commits) |-> commits[k].author] = <<Ada, Bob, Ada>>
    /\ summary.top = <<[author |-> Ada, count |-> 2], [author |-> Bob, count |-> 1]>>

====
